---- MODULE Spec2Model ----
(***************************************************************************)
(* The ALSA receiver queue of a_j_midi (src/src/alsa_receiver_queue.cpp):  *)
(* a chain of futures, each fulfilled by one listener thread with a batch  *)
(* of sequencer events and the future of the next listener.  The control   *)
(* thread calls start and stop, the realtime thread calls process, and the *)
(* listener threads run without the queue lock.  The cycle scheduler of    *)
(* src/src/jack_client.cpp (newDeadline, resetTiming, isPlausible,         *)
(* invalidateTiming) is modelled beside it, under its own specification.   *)
(***************************************************************************)
EXTENDS Integers, Sequences, FiniteSets, TLC

\* ------------------------------------------------------------------ bounds
MaxEvents == 2   \* sequencer events that arrive at the port
MaxStarts == 2   \* successful calls of start (sessions)
MaxTime   == 2   \* last instant of the system clock
MaxJackTime == 10 \* last instant of the clock in the runs of the scheduler
MaxLag    == 1   \* the clock's advance between two reads inside one call
MaxFrames == 8   \* largest jack_frames_since_cycle_start the engine reports
MaxResets == 3   \* largest g_resetTimingCount

\* One listener per session plus one follow-on listener per batch; a batch
\* holds at least one event.
MaxSlots == MaxEvents + MaxStarts
Slots    == 1 .. MaxSlots
Times    == 0 .. MaxTime

VARIABLES
  stateFlag,              \* State::stopped / State::running
  carryOnFlag,            \* std::atomic<bool> carryOnFlag
  queueHead,              \* FutureAlsaEvents queueHead
  currentEventBatchCount, \* std::atomic<int> currentEventBatchCount
  lock,                   \* owner of queueAccessMutex
  pc,                     \* position of the listener thread of each future
  evs,                    \* EventList retrieved by each listener
  nxt,                    \* the follow-on future a listener (its batch) holds
  ts,                     \* AlsaEventBatch::_timeStamp
  bstat,                  \* life of each AlsaEventBatch object
  source,                 \* the FIFO of the ALSA sequencer port
  now,                    \* Sys_clock::now()
  nextEvent,              \* identity of the next event to arrive
  nextSlot,               \* identity of the next future std::async creates
  session,                \* number of successful starts
  sessOf,                 \* the session in which each listener was launched
  procPc,                 \* position of the thread inside process
  procLocal,              \* queueHeadInternal of processInternal
  procDeadline,           \* deadline of the process call in progress
  waited,                 \* process called get() on a future not yet ready
  delivered,              \* the closure's invocations, in order
  produced,               \* the futures in the order their events were retrieved
  putBack,                \* the batches process has given back (line 207)
  threw,                  \* the start that returned last threw (line 366)
  g_cycleLength,          \* jack_client.cpp: duration of one cycle
  g_previousDeadline,     \* jack_client.cpp: deadline of the previous cycle
  g_resetTimingCount,     \* jack_client.cpp: number of timing resets
  jPath,                  \* the path the last newDeadline call took
  jResult,                \* the value the last newDeadline call returned
  jNow,                   \* the clock when the last newDeadline call returned
  jCalls,                 \* newDeadline calls since the timing was invalidated
  jLastCall,              \* the instant of the last newDeadline call
  jPeriod,                \* the period the engine reported at the first call
  jRegular,               \* the calls since the invalidation were regular
  jQuiet,                 \* the clock stood still during each of these calls
  g_stateFlag,            \* jack_client.cpp: State::closed / idle / running
  g_hJackClient,          \* jack_client.cpp: the handle of the JACK client
  g_customCallback,       \* jack_client.cpp: the callback of the user
  engineActive,           \* the engine has the client in its process graph
  engineCallback,         \* the engine holds jackInternalCallback
  cOp,                    \* the call of the jackClient that returned last
  cOutcome                \* how that call returned

vars == <<stateFlag, carryOnFlag, queueHead, currentEventBatchCount, lock, pc,
          evs, nxt, ts, bstat, source, now, nextEvent, nextSlot, session,
          sessOf, procPc, procLocal, procDeadline, waited, delivered,
          produced, putBack, threw, g_cycleLength, g_previousDeadline,
          g_resetTimingCount, jPath, jResult, jNow, jCalls, jLastCall,
          jPeriod, jRegular, jQuiet, g_stateFlag, g_hJackClient,
          g_customCallback, engineActive, engineCallback, cOp, cOutcome>>

\* The variables of the state machine of jack_client.cpp.
cvars == <<g_stateFlag, g_hJackClient, g_customCallback, engineActive,
           engineCallback, cOp, cOutcome>>

\* The variables of the cycle scheduler of jack_client.cpp.
jvars == <<g_cycleLength, g_previousDeadline, g_resetTimingCount, jPath,
           jResult, jNow, jCalls, jLastCall, jPeriod, jRegular, jQuiet>>

\* The variables of the receiver queue, the clock apart.
qvars == <<stateFlag, carryOnFlag, queueHead, currentEventBatchCount, lock,
           pc, evs, nxt, ts, bstat, source, nextEvent, nextSlot, session,
           sessOf, procPc, procLocal, procDeadline, waited, delivered,
           produced, putBack, threw>>

\* ----------------------------------------------------------------- futures
\* A default constructed (or moved-from) future: valid() is false.
NoFuture == [k |-> "none", s |-> 0]

\* The future returned by std::async for listener s.
AsyncFuture(s) == [k |-> "async", s |-> s]

\* The future of a promise that already holds batch s.
PromiseFuture(s) == [k |-> "promise", s |-> s]

Valid(f) == f.k # "none"

\* The positions of a listener thread that has ended: with a batch, with
\* InterruptedException (line 339), with the runtime_error of checkAlsa.
Finished == {"ready", "interrupted", "error"}

\* What wait_for(0) answers for a valid future.
FutureStatus(f) ==
  IF f.k = "promise" \/ pc[f.s] \in Finished
  THEN "ready" ELSE "timeout"

\* As IsReady, without the test of the status.
IsReadyLax(f) == Valid(f)

IsReady(f) ==
  IF ~Valid(f) THEN FALSE ELSE FutureStatus(f) = "ready"

\* The future holds InterruptedException in place of a batch.
HoldsInterrupted(f) == f.k = "async" /\ pc[f.s] = "interrupted"

\* The future holds the runtime_error of checkAlsa in place of a batch.
HoldsError(f) == f.k = "async" /\ pc[f.s] = "error"

\* process is noexcept: an exception that leaves it ends the program.
ProcessAlive == procPc # "terminated"

HasResult == IsReady(queueHead)

GetState == stateFlag

GetCurrentEventBatchCount == currentEventBatchCount

\* --------------------------------------------------------------- listener
\* As NextPc, with the follow-on listener launched before the retrieval.
NextPcSpawnFirst(p) ==
  CASE p = "poll"  -> "spawn"
    [] p = "spawn" -> "drain"
    [] p = "drain" -> "stamp"
    [] p = "stamp" -> "ret"

\* The statements of listenForEvents that follow the test of line 323, in
\* the order the function executes them.
NextPc(p) ==
  CASE p = "poll"  -> "drain"
    [] p = "drain" -> "spawn"
    [] p = "spawn" -> "stamp"
    [] p = "stamp" -> "ret"

RECURSIVE RetrieveEvents(_)
\* Each event the sequencer hands out is pushed to the front of the list.
RetrieveEvents(fifo) ==
  IF fifo = <<>> THEN <<>>
  ELSE RetrieveEvents(Tail(fifo)) \o <<Head(fifo)>>

\* ----------------------------------------------------------------- process
\* As PastDeadline, one tick too generous.
PastDeadlineLax(timestamp, deadline) == timestamp > deadline + 1

\* As PastDeadline, with the deadline itself excluded.
PastDeadlineEq(timestamp, deadline) == timestamp >= deadline

\* line 201: timestamp > deadline

PastDeadline(timestamp, deadline) == timestamp > deadline

RECURSIVE InvokeClosureForeachEvent(_, _, _, _)
\* closure(event, current) for each event of the list, first to last; the
\* log keeps the batch (slot) each invocation came from.
InvokeClosureForeachEvent(log, eventsList, current, slot) ==
  IF eventsList = <<>> THEN log
  ELSE InvokeClosureForeachEvent(
         Append(log, [ev |-> Head(eventsList), ts |-> current, slot |-> slot]),
         Tail(eventsList), current, slot)

\* As GrabNext, for a batch that holds no follow-on future.
GrabNextEmpty(s) == NoFuture

\* As GrabNext, with the head left on the batch just consumed.
GrabNextSame(s) == PromiseFuture(s)

\* AlsaEventBatch::grabNext: the follow-on future moves to the caller.
GrabNext(s) == nxt[s]

\* As Repack, with the follow-on future given back in place of the batch.
RepackNext(s) == nxt[s]

\* The batch taken too early goes back into a future that is ready.
Repack(s) == PromiseFuture(s)

\* -------------------------------------------------------------------- stop
\* As Joined, with the wait limited to the thread of the head future.
JoinedHeadOnly(f) ==
  IF ~Valid(f) THEN TRUE
  ELSE IF f.k = "async" /\ pc[f.s] \notin Finished THEN FALSE
  ELSE TRUE

RECURSIVE Joined(_)
\* The destructor of a future of std::async waits for its thread, then
\* releases the batch, whose _next is destroyed in the same way.
Joined(f) ==
  IF ~Valid(f) THEN TRUE
  ELSE IF f.k = "async" /\ pc[f.s] \notin Finished THEN FALSE
  ELSE IF HoldsInterrupted(f) \/ HoldsError(f) THEN TRUE
  ELSE Joined(nxt[f.s])

\* As ChainBatches, without the release of the follow-on futures.
ChainBatchesHeadOnly(f) ==
  IF ~Valid(f) \/ HoldsInterrupted(f) \/ HoldsError(f)
     \/ FutureStatus(f) # "ready" THEN {}
  ELSE {f.s}

RECURSIVE ChainBatches(_)
\* The batches that releasing f destroys.
ChainBatches(f) ==
  IF ~Valid(f) \/ HoldsInterrupted(f) \/ HoldsError(f)
     \/ FutureStatus(f) # "ready" THEN {}
  ELSE {f.s} \cup ChainBatches(nxt[f.s])

Live == {i \in Slots : pc[i] \notin {"none"} \cup Finished}

\* -------------------------------------------------------------------- init
Init ==
  /\ stateFlag = "stopped"
  /\ carryOnFlag = FALSE
  /\ queueHead = NoFuture
  /\ currentEventBatchCount = 0
  /\ lock = "none"
  /\ pc = [i \in Slots |-> "none"]
  /\ evs = [i \in Slots |-> <<>>]
  /\ nxt = [i \in Slots |-> NoFuture]
  /\ ts = [i \in Slots |-> 0]
  /\ bstat = [i \in Slots |-> "none"]
  /\ source = <<>>
  /\ now = 0
  /\ nextEvent = 1
  /\ nextSlot = 1
  /\ session = 0
  /\ sessOf = [i \in Slots |-> 0]
  /\ procPc = "idle"
  /\ procLocal = NoFuture
  /\ procDeadline = 0
  /\ waited = FALSE
  /\ delivered = <<>>
  /\ produced = <<>>
  /\ putBack = {}
  /\ threw = FALSE
  /\ g_cycleLength = 0
  /\ g_previousDeadline = 0
  /\ g_resetTimingCount = 0
  /\ jPath = "none"
  /\ jResult = 0
  /\ jNow = 0
  /\ jCalls = 0
  /\ jLastCall = 0
  /\ jPeriod = 0
  /\ jRegular = TRUE
  /\ jQuiet = TRUE
  /\ g_stateFlag = "closed"
  /\ g_hJackClient = "nullptr"
  /\ g_customCallback = "empty"
  /\ engineActive = FALSE
  /\ engineCallback = FALSE
  /\ cOp = "none"
  /\ cOutcome = "ok"

\* ------------------------------------------------------------- environment
Tick ==
  /\ now < MaxTime
  /\ now' = now + 1
  /\ UNCHANGED <<stateFlag, carryOnFlag, queueHead, currentEventBatchCount,
                 lock, pc, evs, nxt, ts, bstat, source, nextEvent, nextSlot,
                 session, sessOf, procPc, procLocal, procDeadline, waited,
                 delivered, produced,
                 putBack, threw>>
  /\ UNCHANGED jvars
  /\ UNCHANGED cvars

Arrive ==
  /\ nextEvent <= MaxEvents
  /\ source' = Append(source, nextEvent)
  /\ nextEvent' = nextEvent + 1
  /\ UNCHANGED <<stateFlag, carryOnFlag, queueHead, currentEventBatchCount,
                 lock, pc, evs, nxt, ts, bstat, now, nextSlot, session,
                 sessOf, procPc, procLocal, procDeadline, waited, delivered,
                 produced,
                 putBack, threw>>
  /\ UNCHANGED jvars
  /\ UNCHANGED cvars

\* --------------------------------------------------------- listener thread
\* As L_While, with the loop entered whatever the flag says.
L_WhileIgnoresFlag(i) ==
  /\ ProcessAlive
  /\ pc[i] = "while"
  /\ pc' = [pc EXCEPT ![i] = "poll"]
  /\ UNCHANGED <<stateFlag, carryOnFlag, queueHead, currentEventBatchCount,
                 lock, evs, nxt, ts, bstat, source, now, nextEvent, nextSlot,
                 session, sessOf, procPc, procLocal, procDeadline, waited,
                 delivered, produced, putBack, threw>>
  /\ UNCHANGED jvars
  /\ UNCHANGED cvars

\* line 317: while (carryOnFlag); line 339: throw InterruptedException
L_While(i) ==
  /\ ProcessAlive
  /\ pc[i] = "while"
  /\ pc' = [pc EXCEPT ![i] = IF carryOnFlag THEN "poll" ELSE "interrupted"]
  /\ UNCHANGED <<stateFlag, carryOnFlag, queueHead, currentEventBatchCount,
                 lock, evs, nxt, ts, bstat, source, now, nextEvent, nextSlot,
                 session, sessOf, procPc, procLocal, procDeadline, waited,
                 delivered, produced,
                 putBack, threw>>
  /\ UNCHANGED jvars
  /\ UNCHANGED cvars

\* As L_Poll, without the second test of the flag at line 323.
L_PollIgnoresFlag(i) ==
  /\ ProcessAlive
  /\ pc[i] = "poll"
  /\ pc' = [pc EXCEPT ![i] = IF source # <<>>
                             THEN NextPc("poll") ELSE "while"]
  /\ UNCHANGED <<stateFlag, carryOnFlag, queueHead, currentEventBatchCount,
                 lock, evs, nxt, ts, bstat, source, now, nextEvent, nextSlot,
                 session, sessOf, procPc, procLocal, procDeadline, waited,
                 delivered, produced,
                 putBack, threw>>
  /\ UNCHANGED jvars
  /\ UNCHANGED cvars

\* lines 322-323: poll returns or times out, then the flag is read again
L_Poll(i) ==
  /\ ProcessAlive
  /\ pc[i] = "poll"
  /\ pc' = [pc EXCEPT ![i] = IF source # <<>> /\ carryOnFlag
                             THEN NextPc("poll") ELSE "while"]
  /\ UNCHANGED <<stateFlag, carryOnFlag, queueHead, currentEventBatchCount,
                 lock, evs, nxt, ts, bstat, source, now, nextEvent, nextSlot,
                 session, sessOf, procPc, procLocal, procDeadline, waited,
                 delivered, produced,
                 putBack, threw>>
  /\ UNCHANGED jvars
  /\ UNCHANGED cvars

\* lines 324-325: retrieveEvents, and the test for an empty list
L_Drain(i) ==
  /\ ProcessAlive
  /\ pc[i] = "drain"
  /\ evs' = [evs EXCEPT ![i] = RetrieveEvents(source)]
  /\ source' = <<>>
  /\ produced' = IF source # <<>> THEN Append(produced, i) ELSE produced
  /\ pc' = [pc EXCEPT ![i] = IF source # <<>> THEN NextPc("drain") ELSE "while"]
  /\ UNCHANGED <<stateFlag, carryOnFlag, queueHead, currentEventBatchCount,
                 lock, nxt, ts, bstat, now, nextEvent, nextSlot, session,
                 sessOf, procPc, procLocal, procDeadline, waited, delivered,
                 putBack, threw>>
  /\ UNCHANGED jvars
  /\ UNCHANGED cvars

\* line 327: nextFuture = startNextFuture(hSequencer)
L_Spawn(i) ==
  /\ ProcessAlive
  /\ pc[i] = "spawn"
  /\ nextSlot <= MaxSlots
  /\ nxt' = [nxt EXCEPT ![i] = AsyncFuture(nextSlot)]
  /\ pc' = [pc EXCEPT ![i] = NextPc("spawn"), ![nextSlot] = "while"]
  /\ sessOf' = [sessOf EXCEPT ![nextSlot] = session]
  /\ nextSlot' = nextSlot + 1
  /\ UNCHANGED <<stateFlag, carryOnFlag, queueHead, currentEventBatchCount,
                 lock, evs, ts, bstat, source, now, nextEvent, session,
                 procPc, procLocal, procDeadline, waited, delivered, produced,
                 putBack, threw>>
  /\ UNCHANGED jvars
  /\ UNCHANGED cvars

\* line 330: new AlsaEventBatch(nextFuture, events, Sys_clock::now())
L_Stamp(i) ==
  /\ ProcessAlive
  /\ pc[i] = "stamp"
  /\ ts' = [ts EXCEPT ![i] = now]
  /\ bstat' = [bstat EXCEPT ![i] = "alive"]
  /\ currentEventBatchCount' = currentEventBatchCount + 1
  /\ pc' = [pc EXCEPT ![i] = NextPc("stamp")]
  /\ UNCHANGED <<stateFlag, carryOnFlag, queueHead, lock, evs, nxt, source,
                 now, nextEvent, nextSlot, session, sessOf, procPc, procLocal,
                 procDeadline, waited, delivered, produced,
                 putBack, threw>>
  /\ UNCHANGED jvars
  /\ UNCHANGED cvars

\* line 334: the thread returns the batch, its future becomes ready
L_Return(i) ==
  /\ ProcessAlive
  /\ pc[i] = "ret"
  /\ pc' = [pc EXCEPT ![i] = "ready"]
  /\ UNCHANGED <<stateFlag, carryOnFlag, queueHead, currentEventBatchCount,
                 lock, evs, nxt, ts, bstat, source, now, nextEvent, nextSlot,
                 session, sessOf, procPc, procLocal, procDeadline, waited,
                 delivered, produced,
                 putBack, threw>>
  /\ UNCHANGED jvars
  /\ UNCHANGED cvars

\* ------------------------------------------------------------------- start
\* As Start, with the state flag left as it was.
StartKeepsState ==
  /\ lock = "none"
  /\ stateFlag # "running"
  /\ session < MaxStarts
  /\ nextSlot <= MaxSlots
  /\ carryOnFlag' = TRUE
  /\ session' = session + 1
  /\ pc' = [pc EXCEPT ![nextSlot] = "while"]
  /\ sessOf' = [sessOf EXCEPT ![nextSlot] = session + 1]
  /\ queueHead' = AsyncFuture(nextSlot)
  /\ nextSlot' = nextSlot + 1
  /\ threw' = FALSE
  /\ UNCHANGED <<stateFlag, currentEventBatchCount, lock, evs, nxt, ts, bstat,
                 source, now, nextEvent, procPc, procLocal, procDeadline,
                 waited, delivered, produced, putBack>>
  /\ UNCHANGED jvars
  /\ UNCHANGED cvars

\* start on a stopped queue: lines 368-370 and 379, under the lock
Start ==
  /\ lock = "none"
  /\ stateFlag # "running"
  /\ session < MaxStarts
  /\ nextSlot <= MaxSlots
  /\ carryOnFlag' = TRUE
  /\ stateFlag' = "running"
  /\ session' = session + 1
  /\ pc' = [pc EXCEPT ![nextSlot] = "while"]
  /\ sessOf' = [sessOf EXCEPT ![nextSlot] = session + 1]
  /\ queueHead' = AsyncFuture(nextSlot)
  /\ nextSlot' = nextSlot + 1
  /\ threw' = FALSE
  /\ UNCHANGED <<currentEventBatchCount, lock, evs, nxt, ts, bstat, source,
                 now, nextEvent, procPc, procLocal, procDeadline, waited,
                 delivered, produced, putBack>>
  /\ UNCHANGED jvars
  /\ UNCHANGED cvars

\* start on a running queue: line 364 enters stopInternal (line 243)
StartTwice ==
  /\ lock = "none"
  /\ stateFlag = "running"
  /\ lock' = "start"
  /\ carryOnFlag' = FALSE
  /\ threw' = FALSE
  /\ UNCHANGED <<stateFlag, queueHead, currentEventBatchCount, pc, evs, nxt,
                 ts, bstat, source, now, nextEvent, nextSlot, session, sessOf,
                 procPc, procLocal, procDeadline, waited, delivered, produced,
                 putBack>>
  /\ UNCHANGED jvars
  /\ UNCHANGED cvars

\* As StopInternalTail, without the wait for the listener threads.
StopInternalTailNoJoin ==
  /\ bstat' = [i \in Slots |->
                 IF i \in ChainBatches(queueHead) THEN "dropped" ELSE bstat[i]]
  /\ currentEventBatchCount' =
       currentEventBatchCount - Cardinality(ChainBatches(queueHead))
  /\ queueHead' = NoFuture
  /\ stateFlag' = "stopped"
  /\ UNCHANGED jvars
  /\ UNCHANGED cvars

\* As StopInternalTail, with the head left in place.
StopInternalTailKeepsHead ==
  /\ Joined(queueHead)
  /\ stateFlag' = "stopped"
  /\ UNCHANGED <<bstat, currentEventBatchCount, queueHead>>
  /\ UNCHANGED jvars
  /\ UNCHANGED cvars

\* lines 247-249 of stopInternal: the head is released, the state is stopped
StopInternalTail ==
  /\ Joined(queueHead)
  /\ bstat' = [i \in Slots |->
                 IF i \in ChainBatches(queueHead) THEN "dropped" ELSE bstat[i]]
  /\ currentEventBatchCount' =
       currentEventBatchCount - Cardinality(ChainBatches(queueHead))
  /\ queueHead' = NoFuture
  /\ stateFlag' = "stopped"
  /\ UNCHANGED jvars
  /\ UNCHANGED cvars

\* As StartThrow, thrown before stopInternal has released the head.
StartThrowEarly ==
  /\ lock = "start"
  /\ lock' = "none"
  /\ threw' = TRUE
  /\ UNCHANGED <<stateFlag, queueHead, currentEventBatchCount, bstat,
                 carryOnFlag, pc, evs, nxt, ts, source, now, nextEvent,
                 nextSlot, session, sessOf, procPc, procLocal, procDeadline,
                 waited, delivered, produced, putBack>>
  /\ UNCHANGED jvars
  /\ UNCHANGED cvars

\* lines 365-366: the second start throws, the lock is released
StartThrow ==
  /\ lock = "start"
  /\ StopInternalTail
  /\ lock' = "none"
  /\ threw' = TRUE
  /\ UNCHANGED <<carryOnFlag, pc, evs, nxt, ts, source, now, nextEvent,
                 nextSlot, session, sessOf, procPc, procLocal, procDeadline,
                 waited, delivered, produced, putBack>>
  /\ UNCHANGED jvars
  /\ UNCHANGED cvars

\* -------------------------------------------------------------------- stop
\* lines 262 and 243: the lock is taken, carryOnFlag = false
StopBegin ==
  /\ lock = "none"
  /\ lock' = "stop"
  /\ carryOnFlag' = FALSE
  /\ threw' = FALSE
  /\ UNCHANGED <<stateFlag, queueHead, currentEventBatchCount, pc, evs, nxt,
                 ts, bstat, source, now, nextEvent, nextSlot, session, sessOf,
                 procPc, procLocal, procDeadline, waited, delivered, produced,
                 putBack>>
  /\ UNCHANGED jvars
  /\ UNCHANGED cvars

\* lines 247-249 and 264
StopEnd ==
  /\ lock = "stop"
  /\ StopInternalTail
  /\ lock' = "none"
  /\ threw' = FALSE
  /\ UNCHANGED <<carryOnFlag, pc, evs, nxt, ts, source, now, nextEvent,
                 nextSlot, session, sessOf, procPc, procLocal, procDeadline,
                 waited, delivered, produced, putBack>>
  /\ UNCHANGED jvars
  /\ UNCHANGED cvars

\* ----------------------------------------------------------------- process
\* As ProcessBegin, without the lock.
ProcessBeginNoLock(deadline) ==
  /\ lock' = "process"
  /\ procDeadline' = deadline
  /\ IF Valid(queueHead)
     THEN /\ procLocal' = queueHead
          /\ queueHead' = NoFuture
          /\ procPc' = "loop"
     ELSE /\ procPc' = "end"
          /\ UNCHANGED <<procLocal, queueHead>>
  /\ threw' = FALSE
  /\ UNCHANGED <<stateFlag, carryOnFlag, currentEventBatchCount, pc, evs, nxt,
                 ts, bstat, source, now, nextEvent, nextSlot, session, sessOf,
                 waited, delivered, produced, putBack>>
  /\ UNCHANGED jvars
  /\ UNCHANGED cvars

\* lines 231-233: the lock is taken; a valid head is moved into processInternal
ProcessBegin(deadline) ==
  /\ lock = "none"
  /\ lock' = "process"
  /\ procDeadline' = deadline
  /\ IF Valid(queueHead)
     THEN /\ procLocal' = queueHead
          /\ queueHead' = NoFuture
          /\ procPc' = "loop"
     ELSE /\ procPc' = "end"
          /\ UNCHANGED <<procLocal, queueHead>>
  /\ threw' = FALSE
  /\ UNCHANGED <<stateFlag, carryOnFlag, currentEventBatchCount, pc, evs, nxt,
                 ts, bstat, source, now, nextEvent, nextSlot, session, sessOf,
                 waited, delivered, produced, putBack>>
  /\ UNCHANGED jvars
  /\ UNCHANGED cvars

\* lines 197-215: one pass of the loop of processInternal
ProcessIter ==
  /\ lock = "process"
  /\ procPc = "loop"
  /\ IF ~IsReady(procLocal)
     THEN \* line 197: the loop ends, line 216 returns the head as it is
          /\ procPc' = "end"
          /\ UNCHANGED <<procLocal, waited, delivered, nxt, bstat,
                         currentEventBatchCount, putBack>>
     ELSE IF FutureStatus(procLocal) # "ready"
     THEN \* line 199: get() blocks until the listener has finished
          /\ waited' = TRUE
          /\ UNCHANGED <<procPc, procLocal, delivered, nxt, bstat,
                         currentEventBatchCount, putBack>>
     ELSE IF HoldsInterrupted(procLocal)
     THEN \* lines 211-213: get() has thrown and left the future invalid
          /\ procLocal' = NoFuture
          /\ procPc' = "end"
          /\ UNCHANGED <<waited, delivered, nxt, bstat, currentEventBatchCount,
                         putBack>>
     ELSE IF HoldsError(procLocal)
     THEN \* line 199: get() throws runtime_error, which line 211 does not
          \* catch; it leaves process, which is noexcept (line 230)
          /\ procPc' = "terminated"
          /\ UNCHANGED <<procLocal, waited, delivered, nxt, bstat,
                         currentEventBatchCount, putBack>>
     ELSE IF PastDeadline(ts[procLocal.s], procDeadline)
     THEN \* lines 201-208
          /\ procLocal' = Repack(procLocal.s)
          /\ putBack' = putBack \cup {procLocal.s}
          /\ procPc' = "end"
          /\ UNCHANGED <<waited, delivered, nxt, bstat, currentEventBatchCount>>
     ELSE \* lines 209-210, then the batch is destroyed
          /\ delivered' = InvokeClosureForeachEvent(delivered,
                            evs[procLocal.s], ts[procLocal.s], procLocal.s)
          /\ procLocal' = GrabNext(procLocal.s)
          /\ nxt' = [nxt EXCEPT ![procLocal.s] = NoFuture]
          /\ bstat' = [bstat EXCEPT ![procLocal.s] = "consumed"]
          /\ currentEventBatchCount' = currentEventBatchCount - 1
          /\ UNCHANGED <<procPc, waited, putBack>>
  /\ UNCHANGED <<stateFlag, carryOnFlag, queueHead, lock, pc, evs, ts, source,
                 now, nextEvent, nextSlot, session, sessOf, procDeadline,
                 produced, threw>>
  /\ UNCHANGED jvars
  /\ UNCHANGED cvars

\* lines 233-235: the returned future becomes the head, the lock is released
ProcessEnd ==
  /\ lock = "process"
  /\ procPc = "end"
  /\ queueHead' = procLocal
  /\ procLocal' = NoFuture
  /\ procPc' = "idle"
  /\ procDeadline' = 0
  /\ lock' = "none"
  /\ UNCHANGED <<stateFlag, carryOnFlag, currentEventBatchCount, pc, evs, nxt,
                 ts, bstat, source, now, nextEvent, nextSlot, session, sessOf,
                 waited, delivered, produced,
                 putBack, threw>>
  /\ UNCHANGED jvars
  /\ UNCHANGED cvars

\* lines 84-89: checkAlsa throws when the sequencer answers with an error,
\* at line 319 inside the loop or at line 286 inside retrieveEvents; the
\* thread ends and its future holds the exception.
L_Fail(i) ==
  /\ ProcessAlive
  /\ \/ pc[i] = "while" /\ carryOnFlag
     \/ pc[i] = "drain"
  /\ pc' = [pc EXCEPT ![i] = "error"]
  /\ UNCHANGED <<stateFlag, carryOnFlag, queueHead, currentEventBatchCount,
                 lock, evs, nxt, ts, bstat, source, now, nextEvent, nextSlot,
                 session, sessOf, procPc, procLocal, procDeadline, waited,
                 delivered, produced, putBack, threw>>
  /\ UNCHANGED jvars
  /\ UNCHANGED cvars

\* -------------------------------------------------------------------- spec
Next ==
  \/ Tick
  \/ Arrive
  \/ \E i \in Slots : L_While(i)
  \/ \E i \in Slots : L_Poll(i)
  \/ \E i \in Slots : L_Drain(i)
  \/ \E i \in Slots : L_Spawn(i)
  \/ \E i \in Slots : L_Stamp(i)
  \/ \E i \in Slots : L_Return(i)
  \/ Start
  \/ StartTwice
  \/ StartThrow
  \/ StopBegin
  \/ StopEnd
  \/ \E d \in Times : ProcessBegin(d)
  \/ ProcessIter
  \/ ProcessEnd

Spec == Init /\ [][Next]_vars

\* The queue with a sequencer that may answer with an error.
NextFault ==
  \/ Next
  \/ \E i \in Slots : L_Fail(i)

SpecFault == Init /\ [][NextFault]_vars

\* A step of the listener thread of future i.
ListenerStep(i) ==
  \/ L_While(i)
  \/ L_Poll(i)
  \/ L_Drain(i)
  \/ L_Spawn(i)
  \/ L_Stamp(i)
  \/ L_Return(i)

\* Every thread that can run does run: the listener threads, and the thread
\* that is inside stopInternal.
FairSpec ==
  /\ Spec
  /\ \A i \in Slots : WF_vars(ListenerStep(i))
  /\ WF_vars(StopEnd)
  /\ WF_vars(StartThrow)

\* ------------------------------------------------------------ jack client
\* The cycle scheduler of src/src/jack_client.cpp.  One unit of the clock
\* is UsPerUnit microseconds, one frame lasts UsPerFrame microseconds.
UsPerUnit == 250

UsPerFrame == 125

\* sysClock::toSysTimeUnits: microseconds to units of the clock.
ToSysTimeUnits(us) == us \div UsPerUnit

\* frames2duration: a number of frames to units of the clock.
Frames2Duration(frames) == (frames * UsPerFrame) \div UsPerUnit

\* line 112: constexpr sysClock::SysTimeUnits JITTER_COMPENSATION{500us}
JITTER_COMPENSATION == ToSysTimeUnits(500)

\* The periods (microseconds) jack_get_cycle_times may report.
PeriodsUs == {750, 1000}

\* As IsPlausible, without the test at line 187.
IsPlausibleNoEarliest(deadline, latestNow, earliestNow) ==
  IF deadline >= latestNow THEN FALSE
  ELSE TRUE

\* As IsPlausible, without the test at line 181.
IsPlausibleNoLatest(deadline, latestNow, earliestNow) ==
  IF deadline < earliestNow - g_cycleLength - JITTER_COMPENSATION THEN FALSE
  ELSE TRUE

\* lines 179-193; latestNow and earliestNow are the clock as read at line
\* 180 and at line 186.
IsPlausible(deadline, latestNow, earliestNow) ==
  IF deadline >= latestNow THEN FALSE
  ELSE IF deadline < earliestNow - g_cycleLength - JITTER_COMPENSATION
       THEN FALSE
  ELSE TRUE

\* As ResetTiming, without the jitter compensation at line 168.
ResetTimingNoJitter(err, periodUs, frames, clock) ==
  IF err
  THEN [ret |-> clock, prev |-> g_previousDeadline, cycle |-> g_cycleLength,
        path |-> "failed"]
  ELSE LET newDeadline == clock - Frames2Duration(frames)
       IN  [ret |-> newDeadline, prev |-> newDeadline,
            cycle |-> ToSysTimeUnits(periodUs), path |-> "resync"]

\* lines 150-172, the increment of the counter apart: what resetTiming
\* returns and stores, given the answers of the engine and the clock as
\* read at line 160 or at line 168.
ResetTiming(err, periodUs, frames, clock) ==
  IF err
  THEN \* lines 158-161: the two variables keep their values
       [ret |-> clock, prev |-> g_previousDeadline, cycle |-> g_cycleLength,
        path |-> "failed"]
  ELSE LET newDeadline ==
             clock - Frames2Duration(frames) - JITTER_COMPENSATION
       IN  [ret |-> newDeadline, prev |-> newDeadline,
            cycle |-> ToSysTimeUnits(periodUs), path |-> "resync"]

\* The clock, as the realtime thread of the engine sees it.
JackTick ==
  /\ now < MaxJackTime
  /\ now' = now + 1
  /\ UNCHANGED jvars
  /\ UNCHANGED cvars
  /\ UNCHANGED qvars

\* lines 132-134: what invalidateTiming assigns.
TimingInvalidated ==
  /\ g_cycleLength' = 0
  /\ g_previousDeadline' = 0
  /\ g_resetTimingCount' = 0
  /\ jPath' = "none"
  /\ jResult' = 0
  /\ jNow' = now
  /\ jCalls' = 0
  /\ jLastCall' = 0
  /\ jPeriod' = 0
  /\ jRegular' = TRUE
  /\ jQuiet' = TRUE

\* lines 131-135
InvalidateTiming ==
  /\ TimingInvalidated
  /\ UNCHANGED now
  /\ UNCHANGED qvars
  /\ UNCHANGED cvars

\* lines 207-219, called at line 236.  err, periodUs and frames are the
\* answers of the engine (lines 156 and 166); d1 and d2 are the advances
\* of the clock between the reads at lines 180, 186 and 160 or 168.
NewDeadline(err, periodUs, frames, d1, d2) ==
  /\ g_resetTimingCount < MaxResets
  /\ now + d1 + d2 <= MaxJackTime
  /\ LET tentativeDeadline == g_previousDeadline + g_cycleLength
     IN  IF IsPlausible(tentativeDeadline, now, now + d1)
         THEN \* lines 213-214
              /\ g_previousDeadline' = tentativeDeadline
              /\ jResult' = tentativeDeadline
              /\ jPath' = "fast"
              /\ now' = now + d1
              /\ UNCHANGED <<g_cycleLength, g_resetTimingCount>>
         ELSE \* line 218
              LET r == ResetTiming(err, periodUs, frames, now + d1 + d2)
              IN  /\ g_resetTimingCount' = g_resetTimingCount + 1
                  /\ g_cycleLength' = r.cycle
                  /\ g_previousDeadline' = r.prev
                  /\ jResult' = r.ret
                  /\ jPath' = r.path
                  /\ now' = now + d1 + d2
  /\ jNow' = now'
  /\ jCalls' = IF jCalls < 2 THEN jCalls + 1 ELSE jCalls
  /\ jLastCall' = now
  /\ jPeriod' = IF jCalls = 0 THEN ToSysTimeUnits(periodUs) ELSE jPeriod
  /\ jRegular' = /\ jRegular
                 /\ ~err
                 /\ Frames2Duration(frames) <= ToSysTimeUnits(periodUs)
                 /\ \/ jCalls = 0
                    \/ /\ now - jLastCall = jPeriod
                       /\ ToSysTimeUnits(periodUs) = jPeriod
  /\ jQuiet' = (jQuiet /\ d1 = 0 /\ d2 = 0)
  /\ UNCHANGED qvars
  /\ UNCHANGED cvars

NextJack ==
  \/ JackTick
  \/ InvalidateTiming
  \/ \E err \in BOOLEAN, periodUs \in PeriodsUs, frames \in 0 .. MaxFrames,
        d1, d2 \in 0 .. MaxLag :
        NewDeadline(err, periodUs, frames, d1, d2)

SpecJack == Init /\ [][NextJack]_vars

\* ----------------------------------------------------- jack client states
\* The functions a user may register.  "empty" is a ProcessCallback that
\* holds no function.
Callbacks == {"empty", "a"}

\* As StopInternal, with the state set to idle in every case.
StopInternalAlwaysIdle == "idle"

\* lines 84-100: the state stopInternal leaves behind.
StopInternal ==
  IF g_stateFlag \in {"closed", "idle"} THEN g_stateFlag ELSE "idle"

\* As Close, with the handle left as it is.
CloseKeepsHandle ==
  /\ g_stateFlag' = "closed"
  /\ engineActive' = FALSE
  /\ engineCallback' = FALSE
  /\ cOp' = "close"
  /\ cOutcome' = "ok"
  /\ UNCHANGED <<g_hJackClient, g_customCallback, now>>
  /\ UNCHANGED jvars
  /\ UNCHANGED qvars

\* lines 255-271: close; from the running state stopInternal deactivates
\* the client first, then the client is closed and the handle is cleared
Close ==
  /\ g_stateFlag' = "closed"
  /\ g_hJackClient' = "nullptr"
  /\ engineActive' = FALSE
  /\ engineCallback' = FALSE
  /\ cOp' = "close"
  /\ cOutcome' = "ok"
  /\ UNCHANGED <<g_customCallback, now>>
  /\ UNCHANGED jvars
  /\ UNCHANGED qvars

\* As Open, without the test of the state at line 290.
OpenAnyState(ok) ==
  /\ cOp' = "open"
  /\ IF ok
     THEN /\ g_hJackClient' = "client"
          /\ g_stateFlag' = "idle"
          /\ cOutcome' = "ok"
     ELSE /\ g_hJackClient' = "nullptr"
          /\ cOutcome' = "ServerNotRunningException"
          /\ UNCHANGED g_stateFlag
  /\ UNCHANGED <<g_customCallback, engineActive, engineCallback, now>>
  /\ UNCHANGED jvars
  /\ UNCHANGED qvars

\* lines 286-306: open; ok is whether jack_client_open gives a client
Open(ok) ==
  /\ cOp' = "open"
  /\ IF g_stateFlag # "closed"
     THEN \* lines 290-292
          /\ cOutcome' = "BadStateException"
          /\ UNCHANGED <<g_stateFlag, g_hJackClient>>
     ELSE IF ok
     THEN /\ g_hJackClient' = "client"
          /\ g_stateFlag' = "idle"
          /\ cOutcome' = "ok"
     ELSE \* lines 301-304
          /\ g_hJackClient' = "nullptr"
          /\ cOutcome' = "ServerNotRunningException"
          /\ UNCHANGED g_stateFlag
  /\ UNCHANGED <<g_customCallback, engineActive, engineCallback, now>>
  /\ UNCHANGED jvars
  /\ UNCHANGED qvars

\* lines 314-318: stop, which is stopInternal under the lock; when the
\* state is running, jack_deactivate takes the client out of the graph
JackStop ==
  /\ g_stateFlag' = StopInternal
  /\ engineActive' = IF g_stateFlag = "running" THEN FALSE ELSE engineActive
  /\ cOp' = "stop"
  /\ cOutcome' = "ok"
  /\ UNCHANGED <<g_hJackClient, g_customCallback, engineCallback, now>>
  /\ UNCHANGED jvars
  /\ UNCHANGED qvars

\* As Activate, with the timing left as it is.
ActivateKeepsTiming(ok) ==
  /\ cOp' = "activate"
  /\ IF g_stateFlag # "idle"
     THEN /\ cOutcome' = "BadStateException"
          /\ UNCHANGED <<g_stateFlag, engineActive>>
     ELSE IF ok
          THEN /\ engineActive' = TRUE
               /\ g_stateFlag' = "running"
               /\ cOutcome' = "ok"
          ELSE /\ cOutcome' = "ServerException"
               /\ UNCHANGED <<g_stateFlag, engineActive>>
  /\ UNCHANGED jvars
  /\ UNCHANGED <<g_hJackClient, g_customCallback, engineCallback, now>>
  /\ UNCHANGED qvars

\* lines 343-358: activate; ok is whether jack_activate succeeds
Activate(ok) ==
  /\ cOp' = "activate"
  /\ IF g_stateFlag # "idle"
     THEN \* lines 346-349
          /\ cOutcome' = "BadStateException"
          /\ UNCHANGED <<g_stateFlag, engineActive>>
          /\ UNCHANGED jvars
     ELSE /\ TimingInvalidated
          /\ IF ok
             THEN /\ engineActive' = TRUE
                  /\ g_stateFlag' = "running"
                  /\ cOutcome' = "ok"
             ELSE \* lines 353-356
                  /\ cOutcome' = "ServerException"
                  /\ UNCHANGED <<g_stateFlag, engineActive>>
  /\ UNCHANGED <<g_hJackClient, g_customCallback, engineCallback, now>>
  /\ UNCHANGED qvars

\* lines 368-379: registerProcessCallback; ok is whether
\* jack_set_process_callback succeeds
RegisterProcessCallback(processCallback, ok) ==
  /\ cOp' = "register"
  /\ IF g_stateFlag # "idle"
     THEN \* lines 371-373
          /\ cOutcome' = "BadStateException"
          /\ UNCHANGED <<g_customCallback, engineCallback>>
     ELSE /\ g_customCallback' = processCallback
          /\ IF ok
             THEN /\ engineCallback' = TRUE
                  /\ cOutcome' = "ok"
             ELSE /\ cOutcome' = "ServerException"
                  /\ UNCHANGED engineCallback
  /\ UNCHANGED <<g_stateFlag, g_hJackClient, engineActive, now>>
  /\ UNCHANGED jvars
  /\ UNCHANGED qvars

\* lines 234-239: the engine calls jackInternalCallback once per cycle
\* while the client is in the graph; with a custom callback at hand the
\* deadline of the cycle is computed (without one, nothing changes).
JackInternalCallback(err, periodUs, frames, d1, d2) ==
  /\ engineActive
  /\ engineCallback
  /\ g_customCallback # "empty"
  /\ NewDeadline(err, periodUs, frames, d1, d2)

NextClient ==
  \/ Tick
  \/ Close
  \/ \E ok \in BOOLEAN : Open(ok)
  \/ JackStop
  \/ \E ok \in BOOLEAN : Activate(ok)
  \/ \E cb \in Callbacks, ok \in BOOLEAN : RegisterProcessCallback(cb, ok)
  \/ \E err \in BOOLEAN, periodUs \in PeriodsUs, frames \in 0 .. MaxFrames,
        d1, d2 \in 0 .. MaxLag :
        JackInternalCallback(err, periodUs, frames, d1, d2)

SpecClient == Init /\ [][NextClient]_vars


\* ------------------------------------------------------------------ claims
\* The head of the chain: inside process it is the local queueHeadInternal.
EffHead == IF lock = "process" THEN procLocal ELSE queueHead

RECURSIVE ChainSlots(_)
\* The futures reachable from f through the follow-on futures.
ChainSlots(f) == IF ~Valid(f) THEN {} ELSE {f.s} \cup ChainSlots(nxt[f.s])

\* The events the closure has been invoked with for batch s, in order.
DeliveredOf(s) ==
  LET idx == {k \in 1 .. Len(delivered) : delivered[k].slot = s}
  IN  [k \in idx |-> delivered[k].ev]

CountOf(e) == Cardinality({k \in 1 .. Len(delivered) : delivered[k].ev = e})

EventsOf(s) == {evs[s][k] : k \in 1 .. Len(evs[s])}

\* The place of future s in the order of the retrievals.
Pos(s) == CHOOSE k \in 1 .. Len(produced) : produced[k] = s

\* A step of the loop of processInternal.
IterStep == lock = "process" /\ procPc = "loop"
            /\ <<procPc, procLocal, waited>>' # <<procPc, procLocal, waited>>

\* C1: the closure is invoked at most once for each event a listener has
\* retrieved, whatever the sequence of start, process and stop, and also
\* for a batch that process had given back because it was past the deadline.
C1_AtMostOnce ==
  /\ \A k \in 1 .. Len(delivered) : CountOf(delivered[k].ev) = 1
  /\ \A s \in Slots : bstat[s] = "consumed" =>
        Cardinality(DOMAIN DeliveredOf(s)) = Len(evs[s])

\* A batch that was given back has later been passed to the closure.
C1_Witness ==
  \E s \in putBack : bstat[s] = "consumed" /\ CountOf(evs[s][1]) = 1

\* C2: in a running session every batch a listener has built is either
\* still in the chain that hangs from the head or has been passed wholly to
\* the closure; a batch given back is the head again and holds its follow-on
\* future; and a process call whose deadline is not before the timestamp of
\* such a head passes its events to the closure and goes on with the
\* follow-on future.
C2_InChainOrDelivered ==
  (stateFlag = "running" /\ lock \notin {"stop", "start"}) =>
    /\ \A s \in Slots : (sessOf[s] = session /\ bstat[s] # "none") =>
          \/ bstat[s] = "alive" /\ s \in ChainSlots(EffHead)
          \/ bstat[s] = "consumed" /\
               {DeliveredOf(s)[k] : k \in DOMAIN DeliveredOf(s)} = EventsOf(s)
    /\ EffHead.k = "promise" =>
          /\ bstat[EffHead.s] = "alive"
          /\ EffHead.s \in putBack
          /\ Valid(nxt[EffHead.s])

C2_NoBatchLost ==
  /\ []C2_InChainOrDelivered
  /\ [][(IterStep /\ procLocal.k = "promise"
           /\ procDeadline >= ts[procLocal.s]) =>
          /\ Len(delivered') = Len(delivered) + Len(evs[procLocal.s])
          /\ \A k \in Len(delivered) + 1 .. Len(delivered') :
                delivered'[k].slot = procLocal.s
          /\ procLocal' = nxt[procLocal.s]
          /\ procPc' = "loop"]_vars

\* A batch that was given back has been consumed by a later call, and the
\* batch that follows it has been consumed too.
C2_Witness ==
  \E s \in putBack : \E r \in Slots :
     r > s /\ bstat[s] = "consumed" /\ bstat[r] = "consumed"
           /\ sessOf[r] = sessOf[s] /\ stateFlag = "running"

\* C3: the batches reach the closure in the order in which the listeners
\* retrieved them from the sequencer: no invocation for a batch comes after
\* an invocation for a batch that was retrieved later.
C3_BatchOrder ==
  \A i, j \in 1 .. Len(delivered) :
     i < j => Pos(delivered[i].slot) <= Pos(delivered[j].slot)

\* Two batches of one session have reached the closure.
C3_Witness ==
  \E i, j \in 1 .. Len(delivered) :
     /\ i < j
     /\ delivered[i].slot # delivered[j].slot
     /\ sessOf[delivered[i].slot] = sessOf[delivered[j].slot]

\* C4: along the chain of one session the timestamps of the batches do not
\* decrease.
C4_TimestampsMonotonic ==
  \A a, b \in Slots :
     (a < b /\ sessOf[a] = sessOf[b] /\ bstat[a] # "none" /\ bstat[b] # "none")
        => ts[a] <= ts[b]

\* C5: every invocation of the closure passes an event of the batch at the
\* head with that batch's timestamp, which is not after the deadline of the
\* call; a batch past the deadline ends the call with no invocation.
C5_WithinDeadline ==
  [][/\ \A k \in Len(delivered) + 1 .. Len(delivered') :
          /\ lock = "process"
          /\ delivered'[k].slot = procLocal.s
          /\ delivered'[k].ev \in EventsOf(procLocal.s)
          /\ delivered'[k].ts = ts[procLocal.s]
          /\ delivered'[k].ts <= procDeadline
     /\ (IterStep /\ IsReady(procLocal) /\ ~HoldsInterrupted(procLocal)
           /\ ts[procLocal.s] > procDeadline) =>
          (delivered' = delivered /\ procPc' = "end")]_vars

\* A call has passed a batch stamped exactly at its deadline and has given
\* back the batch after it.
C5_Witness ==
  /\ lock = "process" /\ procPc = "end"
  /\ procLocal.k = "promise"
  /\ \E k \in 1 .. Len(delivered) : delivered[k].ts = procDeadline

\* C6 as stated: when process(d) returns, a head that is ready holds a batch
\* stamped after d.
C6_HeadLateAtReturn ==
  [][(lock = "process" /\ lock' = "none" /\ IsReady(queueHead)') =>
        ts'[queueHead'.s] > procDeadline]_vars

\* C6 as amended: the future process(d) installs as head is the one it held
\* at its last test for readiness, and at that test it was either not ready
\* or the batch given back, stamped after d.
C6_HeadLateAtLastCheck ==
  [][/\ (IterStep /\ procPc' = "end" /\ IsReady(procLocal)') =>
          (procLocal'.k = "promise" /\ ts[procLocal'.s] > procDeadline)
     /\ (lock = "process" /\ lock' = "none") => queueHead' = procLocal]_vars

\* process has given a batch back and is about to install it as head.
C6_Witness ==
  /\ lock = "process" /\ procPc = "end"
  /\ procLocal.k = "promise" /\ ts[procLocal.s] > procDeadline
  /\ procLocal.s \in putBack

\* C7: process never waits for a listener: it takes a batch only from a
\* future that is ready, ends its loop at the first future that is not, and
\* installs that waiting future as the head.
C7_NonBlocking ==
  /\ [](~waited)
  /\ [][/\ (IterStep /\ ~IsReady(procLocal)) =>
             (procLocal' = procLocal /\ procPc' = "end"
                /\ delivered' = delivered)
        /\ (IterStep /\ procLocal' # procLocal) =>
             FutureStatus(procLocal) = "ready"
        /\ (lock = "process" /\ lock' = "none") => queueHead' = procLocal]_vars

\* process has consumed a batch, met a waiting future and returned: the
\* waiting future is the head.
C7_Witness ==
  /\ lock = "none" /\ Valid(queueHead) /\ ~IsReady(queueHead)
  /\ pc[queueHead.s] \in {"while", "poll"}
  /\ \E k \in 1 .. Len(delivered) :
        sessOf[delivered[k].slot] = sessOf[queueHead.s]

\* C8: while the queue is stopped a process call invokes no closure and
\* changes nothing: the head stays null and the state stays stopped.
C8_NoCallbackWhenStopped ==
  [][(stateFlag = "stopped" /\ (lock = "process" \/ lock' = "process")) =>
        /\ delivered' = delivered
        /\ ~Valid(queueHead) /\ ~Valid(queueHead')
        /\ ~Valid(procLocal) /\ ~Valid(procLocal')
        /\ stateFlag' = "stopped"
        /\ carryOnFlag' = carryOnFlag
        /\ currentEventBatchCount' = currentEventBatchCount]_vars

\* process runs on a queue whose stop has discarded a batch.
C8_Witness ==
  /\ lock = "process" /\ stateFlag = "stopped"
  /\ \E s \in Slots : bstat[s] = "dropped"

\* C9: the queue is stopped before the first start; a start on a stopped
\* queue sets the carry-on flag, installs a head future with one listener
\* launched for it and leaves the state running; a stop on a running queue
\* leaves the state stopped.
C9_Lifecycle ==
  /\ [](session = 0 => (stateFlag = "stopped" /\ ~Valid(queueHead)))
  /\ [][/\ (session' # session) =>
             /\ stateFlag = "stopped" /\ stateFlag' = "running"
             /\ carryOnFlag'
             /\ queueHead' = AsyncFuture(nextSlot)
             /\ pc[nextSlot] = "none" /\ pc'[nextSlot] = "while"
             /\ Live' = {nextSlot}
             /\ ~threw'
        /\ (lock = "stop" /\ lock' = "none") => stateFlag' = "stopped"]_vars

\* A stop has returned on a queue that a start had set running.
C9_Witness ==
  /\ session >= 1 /\ lock = "none" /\ stateFlag = "stopped" /\ ~threw
  /\ \E s \in Slots : pc[s] = "interrupted"

\* C10: a start on a running queue throws, and when it returns the state is
\* stopped, the head is null, the listeners of the session have ended and
\* the call has launched no listener.
C10_StartTwice ==
  /\ [](threw => (stateFlag = "stopped" /\ ~Valid(queueHead) /\ Live = {}
                    /\ ~carryOnFlag))
  /\ [][/\ (lock = "none" /\ stateFlag = "running" /\ session' = session
              /\ lock' = "start") => (nextSlot' = nextSlot /\ pc' = pc)
        /\ (lock = "start" /\ lock' = "none") =>
             (threw' /\ nextSlot' = nextSlot /\ session' = session
                /\ pc' = pc /\ stateFlag' = "stopped"
                /\ ~Valid(queueHead'))]_vars

\* A second start has thrown while a listener of the session was waiting.
C10_Witness ==
  /\ threw /\ lock = "none"
  /\ \E s \in Slots : pc[s] = "interrupted" /\ sessOf[s] = session

\* The listeners that are inside the loop of listenForEvents (lines 317-327).
Listening == {i \in Slots : pc[i] \in {"while", "poll", "drain", "spawn"}}

Alive == {s \in Slots : bstat[s] = "alive"}

\* C11: the batch count is the number of batches that listeners have built
\* and that were neither consumed nor discarded; it is never negative, it
\* is 0 as long as no listener of the running session has retrieved an
\* event, and it is 0 whenever a stop has returned.
C11_BatchCount ==
  /\ GetCurrentEventBatchCount = Cardinality(Alive)
  /\ GetCurrentEventBatchCount >= 0
  /\ (stateFlag = "running" /\
        \A k \in 1 .. Len(produced) : sessOf[produced[k]] # session)
       => GetCurrentEventBatchCount = 0
  /\ (lock = "none" /\ stateFlag = "stopped") => GetCurrentEventBatchCount = 0

\* A stop has returned that found two batches of the session not consumed.
C11_Witness ==
  /\ lock = "none" /\ stateFlag = "stopped"
  /\ \E a, b \in Slots :
        a # b /\ bstat[a] = "dropped" /\ bstat[b] = "dropped"
              /\ sessOf[a] = sessOf[b]

\* C12: stop always returns: once the flag is cleared a listener in poll
\* goes back to the test of the flag, a listener at that test ends
\* interrupted without a batch, no listener step needs the queue lock, and
\* under fair scheduling the thread inside stop releases the lock.
C12_StopReturns ==
  /\ (lock = "stop") ~> (lock = "none")
  /\ [](lock = "stop" => \A i \in Live : ENABLED ListenerStep(i))
  /\ [][\A i \in Slots :
          /\ (pc[i] = "while" /\ ~carryOnFlag /\ pc'[i] # pc[i]) =>
                (pc'[i] = "interrupted" /\ bstat'[i] = "none"
                   /\ nextSlot' = nextSlot)
          /\ (pc[i] = "poll" /\ ~carryOnFlag /\ pc'[i] # pc[i]) =>
                pc'[i] = "while"]_vars

\* stop holds the lock while a listener is in poll and an event is waiting.
C12_Witness ==
  /\ lock = "stop" /\ source # <<>>
  /\ \E i \in Slots : pc[i] = "poll"

C15_ErrorSurfaces ==
  [][(lock = "process" /\ procPc = "loop" /\ HoldsError(procLocal)) =>
        (procPc' # "terminated" /\ stateFlag' = "stopped")]_vars

\* C16: hasResult is true exactly when the head future is ready and holds
\* a batch; it is false when the queue is stopped, while the head listener
\* waits, and for a head that will never give a batch.
C16_HasResultIffBatch ==
  lock = "none" =>
    (HasResult <=>
       /\ Valid(queueHead)
       /\ \/ queueHead.k = "promise"
          \/ pc[queueHead.s] = "ready")

\* C17: the value newDeadline returns is never later than the clock at the
\* moment the call returns, whichever path the call took.
C17_NotAfterNow ==
  jPath \in {"fast", "resync", "failed"} => jResult <= jNow

\* Each of the three paths has been taken.
C17_Witness ==
  /\ jPath = "fast"
  /\ g_resetTimingCount = 2
  /\ jResult = jNow - 1

\* C18 as stated: calls exactly one period apart since the invalidation,
\* with the engine reporting that period, reset the timing at most once.
C18_RegularOneReset ==
  jRegular => g_resetTimingCount <= 1

\* C18 as amended: the same, for runs in which the clock does not advance
\* while a call of newDeadline executes.
C18_RegularQuietOneReset ==
  (jRegular /\ jQuiet) => g_resetTimingCount <= 1

\* A regular run of three calls or more, the last one on the fast path.
C18_Witness ==
  /\ jRegular /\ jQuiet
  /\ jCalls = 2 /\ jPath = "fast"
  /\ g_resetTimingCount = 1
  /\ jLastCall - jPeriod > 0
  /\ g_previousDeadline > g_cycleLength

\* C19: a resync that gets no cycle times returns the clock and leaves the
\* previous deadline and the cycle length at zero.
C19_FailureInvalidates ==
  jPath = "failed" =>
    /\ jResult = jNow
    /\ g_previousDeadline = 0
    /\ g_cycleLength = 0

\* C20: after invalidateTiming the three variables are zero, and the first
\* call of newDeadline after it takes the resync path whatever the clock.
C20_InvalidateForcesResync ==
  /\ (jCalls = 0 =>
        g_previousDeadline = 0 /\ g_cycleLength = 0 /\ g_resetTimingCount = 0)
  /\ (jCalls = 1 => jPath \in {"resync", "failed"})

\* A step that is one call of newDeadline.
CallStep == jPath' # "none" /\ jNow' = now' /\ jLastCall' = now

\* The tentative deadline of line 210.
Tentative == g_previousDeadline + g_cycleLength

\* C21: after a run of regular cycles, the call that comes two periods
\* after the previous one takes the resync path: the reset count goes up
\* by one and the value returned lies before the clock.
C21_SkipResyncs ==
  [][(/\ CallStep
      /\ jRegular /\ jQuiet' /\ jCalls = 2 /\ jPath = "fast"
      /\ g_cycleLength > 0
      /\ now - jLastCall = 2 * g_cycleLength)
       => /\ jPath' \in {"resync", "failed"}
          /\ g_resetTimingCount' = g_resetTimingCount + 1
          /\ (jPath' = "resync" => jResult' < now')]_vars

\* C22 as stated: newDeadline takes the fast path exactly when the
\* tentative deadline lies in [now - cycle - jitter, now), now being the
\* clock at the call; it then stores and returns the tentative deadline
\* and leaves cycle length and reset count alone; otherwise it resyncs.
C22_FastIffPlausible ==
  [][CallStep =>
       /\ (jPath' = "fast") <=>
            /\ Tentative < now
            /\ Tentative >= now - g_cycleLength - JITTER_COMPENSATION
       /\ (jPath' = "fast") =>
            /\ jResult' = Tentative /\ g_previousDeadline' = Tentative
            /\ UNCHANGED <<g_cycleLength, g_resetTimingCount>>
       /\ (jPath' # "fast") =>
            g_resetTimingCount' = g_resetTimingCount + 1]_vars

\* C22 as amended: the upper limit is the clock as the call reads it
\* first, the lower limit is taken from the clock as the call reads it
\* last.
C22_FastIffPlausibleAtReads ==
  [][CallStep =>
       /\ (jPath' = "fast") <=>
            /\ Tentative < now
            /\ Tentative >= now' - g_cycleLength - JITTER_COMPENSATION
       /\ (jPath' = "fast") =>
            /\ jResult' = Tentative /\ g_previousDeadline' = Tentative
            /\ UNCHANGED <<g_cycleLength, g_resetTimingCount>>
       /\ (jPath' # "fast") =>
            g_resetTimingCount' = g_resetTimingCount + 1]_vars

\* A call took the fast path while the clock advanced, after a resync.
C22_Witness ==
  /\ jPath = "fast" /\ ~jQuiet
  /\ jNow > jLastCall
  /\ g_cycleLength > 0 /\ g_resetTimingCount = 1
  /\ jResult = g_previousDeadline

\* A step that is a call of open, close, stop, activate or
\* registerProcessCallback (one that repeats the call before it with the
\* same outcome and no effect leaves every variable as it is).
ClientStep == cvars' # cvars

C24_WrongStateRejected ==
  [][ClientStep =>
       /\ (\/ cOp' = "open" /\ g_stateFlag # "closed"
           \/ cOp' \in {"activate", "register"} /\ g_stateFlag # "idle")
            <=> cOutcome' = "BadStateException"
       /\ cOutcome' = "BadStateException" =>
            UNCHANGED <<g_stateFlag, g_hJackClient, g_customCallback,
                        engineActive, engineCallback, g_cycleLength,
                        g_previousDeadline, g_resetTimingCount>>]_vars

\* activate was rejected on a running client whose timing is set.
C24_Witness ==
  /\ cOp = "activate" /\ cOutcome = "BadStateException"
  /\ g_stateFlag = "running" /\ g_cycleLength > 0

\* C25: activate from idle leaves the timing invalidated and the state
\* running; the first cycle after it takes the resync path and leaves the
\* reset count at 1; when the engine refuses, ServerException is raised
\* and the state stays idle.
C25_ActivateForcesResync ==
  /\ (cOp = "activate" /\ cOutcome = "ok") =>
        /\ g_stateFlag = "running"
        /\ jCalls = 0 =>
             (g_cycleLength = 0 /\ g_previousDeadline = 0
                /\ g_resetTimingCount = 0)
        /\ jCalls = 1 =>
             (jPath \in {"resync", "failed"} /\ g_resetTimingCount = 1)
  /\ (cOp = "activate" /\ cOutcome = "ServerException") =>
        g_stateFlag = "idle"

\* C26: close always returns with the state closed, the handle null and
\* the client out of the graph; the handle is null exactly when the state
\* is closed; an open that follows a close is not rejected.
C26_CloseAlwaysCloses ==
  /\ []((g_hJackClient = "nullptr") <=> (g_stateFlag = "closed"))
  /\ [](cOp = "close" =>
          /\ cOutcome = "ok"
          /\ g_stateFlag = "closed" /\ g_hJackClient = "nullptr"
          /\ ~engineActive)
  /\ [][(ClientStep /\ cOp = "close" /\ cOp' = "open") =>
          cOutcome' # "BadStateException"]_vars

\* A client that had run was closed and opened again.
C26_Witness ==
  /\ cOp = "open" /\ cOutcome = "ok"
  /\ g_stateFlag = "idle"
  /\ g_resetTimingCount > 0

\* The places that can hold a future: the head, the local of
\* processInternal, and the _next of each batch.
Holders(f) ==
  Cardinality({i \in Slots : nxt[i] = f})
    + (IF queueHead = f THEN 1 ELSE 0) + (IF procLocal = f THEN 1 ELSE 0)

\* C27: whenever the queue lock is free, the state is stopped exactly when
\* the head is null and exactly when the carry-on flag is false, and in
\* the stopped state no listener thread is alive.
C27_LifecycleAgrees ==
  lock = "none" =>
    /\ (stateFlag = "stopped") <=> ~Valid(queueHead)
    /\ (stateFlag = "stopped") <=> ~carryOnFlag
    /\ stateFlag = "stopped" => Live = {}

\* A rejected second start has returned; it has interrupted a listener
\* and discarded a batch.
C27_Witness ==
  /\ lock = "none" /\ stateFlag = "stopped" /\ threw
  /\ \E i, j \in Slots : pc[i] = "interrupted" /\ bstat[j] = "dropped"

C29_NextHandleOnce ==
  /\ [](\A i \in Slots :
          /\ (pc[i] = "ready" /\ bstat[i] = "alive") =>
                (nxt[i].k = "async" /\ pc[nxt[i].s] # "none")
          /\ bstat[i] = "consumed" => nxt[i] = NoFuture
          /\ pc[i] # "none" => Holders(AsyncFuture(i)) <= 1)
  /\ [][\A i \in Slots :
          (bstat[i] = "alive" /\ bstat'[i] = "consumed") =>
             /\ procLocal' = nxt[i]
             /\ Valid(procLocal') /\ nxt'[i] = NoFuture]_vars

\* A batch was consumed and the future it held is now the head.
C29_Witness ==
  /\ lock = "none" /\ stateFlag = "running"
  /\ \E i \in Slots :
        bstat[i] = "consumed" /\ queueHead.k = "async" /\ queueHead.s > i

Earlier == {i \in Slots : pc[i] # "none" /\ sessOf[i] < session}

\* C31: sessions do not leak into each other: a listener that is alive
\* belongs to the session that began last, and a listener that has ended
\* never steps again; no batch built by a listener of an earlier session
\* lies in the chain or reaches the closure; start finds no listener
\* alive and leaves exactly one, the head, with a batch count of 0.
C31_SessionsDoNotLeak ==
  /\ [](\A i \in Live : sessOf[i] = session)
  /\ [](\A i \in Earlier : i \notin ChainSlots(EffHead) /\ bstat[i] # "alive")
  /\ [][/\ \A i \in Slots : pc[i] \in Finished => pc'[i] = pc[i]
        /\ \A k \in (Len(delivered) + 1) .. Len(delivered') :
              sessOf[delivered'[k].slot] = session
        /\ session' # session =>
              /\ Live = {} /\ ~carryOnFlag /\ carryOnFlag'
              /\ Live' = {nextSlot} /\ queueHead' = AsyncFuture(nextSlot)
              /\ sessOf'[nextSlot] = session'
              /\ currentEventBatchCount' = 0
              /\ \A s \in Slots : bstat'[s] # "alive"]_vars

\* In the second session a batch has reached the closure; the first
\* session had left a batch that stop discarded and a listener that stop
\* interrupted.
C31_Witness ==
  /\ session = 2 /\ stateFlag = "running"
  /\ \E k \in 1 .. Len(delivered) : sessOf[delivered[k].slot] = 2
  /\ \E a, b \in Slots :
        /\ sessOf[a] = 1 /\ bstat[a] = "dropped"
        /\ sessOf[b] = 1 /\ pc[b] = "interrupted"


====
